---- MODULE Spec2Model ----
(***************************************************************************)
(* MeshClients (iroh-net/src/hp/derp/http/mesh_clients.rs): the manager    *)
(* that spawns one mesh client task per peer derp server and tears them    *)
(* all down on shutdown.                                                   *)
(*                                                                         *)
(* Every variable is a function over Managers, so that the two-server      *)
(* scenario of tests::test_mesh_network can be stated with the same        *)
(* actions as the single manager.                                          *)
(***************************************************************************)
EXTENDS Integers, Sequences, FiniteSets, TLC

\* ------------------------------------------------------------------ bounds
\* Most tasks one manager ever spawns (mesh() is not started beyond it).
MaxTasks == 4
\* Most mesh() calls on one manager.
MaxMeshCalls == 2
\* Most packets kept in one forwarding sink's log.
MaxSubmit == 1
\* Most packets the peer relays have on their way to one server at a time.
MaxInFlight == 1
\* Longest explicit url list, and most nodes of one region.
MaxNodes == 2
\* Most regions of a derp map.
MaxRegions == 2

\* ------------------------------------------------------------------ values
Managers == {"A", "B"}

Clients == {"alice", "bob"}

\* A reqwest::Url, by the components Url::set_path can or cannot touch.
Url(scheme, host, port, path, query) ==
    [scheme |-> scheme, host |-> host, port |-> port, path |-> path, query |-> query]

\* set_path as it would be if it only filled in a missing path.
set_path_if_root(url, p) == IF url.path = "/" THEN [url EXCEPT !.path = p] ELSE url

\* url.set_path(p): the path is replaced, every other component is kept.
set_path(url, p) == [url EXCEPT !.path = p]

\* The path literal of mesh(): url.set_path("/derp").
IngressPath == "/derp"

\* The urls the resolver is tried on: they differ in every component, one
\* already has the ingress path, one has another path and a query.
U1 == Url("http", "derp-1", 80, "/", "")
U2 == Url("https", "derp-2", 443, "/derp", "")
U3 == Url("http", "derp-2", 3340, "/old/path", "k=v")

Urls == {U1, U2, U3}

\* test_mesh_network: format!("http://{}/derp", derp_server_x.addr()).
a_url == Url("http", "127.0.0.1", 1, "/derp", "")
b_url == Url("http", "127.0.0.1", 2, "/derp", "")

\* test_mesh_network: let mesh_key: MeshKey = [1; 32].
TestMeshKey == "mesh_key_1x32"

\* SecretKey::generate() of each server, and its public half.
SecretKeyOf(who) == [secret |-> who]
public_key(sk) == [public |-> sk.secret]

SeqsUpTo(S, n) == UNION {[1..k -> S] : k \in 0..n}

\* MeshAddrs, the two ways to name the mesh.
Addrs(urls) == [tag |-> "Addrs", urls |-> urls]
DerpMap(regions) == [tag |-> "DerpMap", derp_map |-> [regions |-> regions]]

\* A DerpRegion with its nodes, a DerpNode with its url.
DerpNode(url) == [url |-> url]
DerpRegion(nodes) == [nodes |-> nodes]

\* regions is given in the iteration order of derp_map.regions.iter().
AllRegions == {DerpRegion(ns) : ns \in SeqsUpTo({DerpNode(u) : u \in Urls}, MaxNodes)}

AllSources ==
    {Addrs(us) : us \in SeqsUpTo(Urls, MaxNodes)}
    \cup {DerpMap(rs) : rs \in SeqsUpTo(AllRegions, MaxRegions)}

\* The address sources the manager's behaviour is explored on.
Sources ==
    { Addrs(<<>>),
      Addrs(<<U2>>),
      Addrs(<<U3>>),
      Addrs(<<U2, U2>>),
      DerpMap(<<DerpRegion(<<DerpNode(U1), DerpNode(U3)>>), DerpRegion(<<DerpNode(U2)>>)>>),
      DerpMap(<<DerpRegion(<<>>)>>) }

\* ------------------------------------------------------------------ state
VARIABLES
    mesh_key,     \* [Managers -> key]            MeshClients.mesh_key
    server_key,   \* [Managers -> secret key]     MeshClients.server_key
    mesh_addrs,   \* [Managers -> MeshAddrs]      MeshClients.mesh_addrs
    packet_fwd,   \* [Managers -> Seq(packet)]    what the PacketForwarderHandler received
    cancel,       \* [Managers -> BOOLEAN]        MeshClients.cancel is cancelled
    tasks,        \* [Managers -> Seq(task)]      every task spawned on MeshClients.tasks
    pc,           \* [Managers -> position of the caller in mesh() / shutdown()]
    addrs,        \* [Managers -> Seq(Url)]       local `addrs` of mesh()
    iter,         \* [Managers -> Nat]            elements of `addrs` the for loop has taken
    meshCalls,    \* [Managers -> Nat]            mesh() calls started
    relayed,      \* [Managers -> SUBSET packet]  packets a peer relay is sending to this server's mesh clients
    delivered,    \* [Managers -> Nat]            packets of packet_fwd the server has routed
    inbox,        \* [Clients -> Seq(message)]    what recv_detail() returned to a client
    dropped       \* [Clients -> BOOLEAN]         a packet of this client found no mesh route

vars == <<mesh_key, server_key, mesh_addrs, packet_fwd, cancel, tasks, pc, addrs,
          iter, meshCalls, relayed, delivered, inbox, dropped>>

config == <<mesh_key, server_key, mesh_addrs>>
e2e == <<relayed, delivered, inbox, dropped>>

\* ------------------------------------------------------------------ mesh(): address resolution
\* The inner loop of mesh(): one url per node, its path set to "/derp".
RECURSIVE NodeUrls(_)
NodeUrls(nodes) ==
    IF nodes = <<>> THEN <<>>
    ELSE <<set_path(Head(nodes).url, IngressPath)>> \o NodeUrls(Tail(nodes))

\* The outer loop of mesh(): the regions in iteration order.
RECURSIVE RegionUrls(_)
RegionUrls(regions) ==
    IF regions = <<>> THEN <<>>
    ELSE NodeUrls(Head(regions).nodes) \o RegionUrls(Tail(regions))

\* resolve as it would be if the explicit urls were given the ingress path too.
resolve_rewriting_all(ma) ==
    IF ma.tag = "Addrs"
    THEN [k \in 1..Len(ma.urls) |-> [ma.urls[k] EXCEPT !.path = "/derp"]]
    ELSE RegionUrls(ma.derp_map.regions)

\* let addrs = match &self.mesh_addrs { ... }
resolve(ma) ==
    IF ma.tag = "Addrs" THEN ma.urls ELSE RegionUrls(ma.derp_map.regions)

\* ------------------------------------------------------------------ mesh(): spawning
\* ClientBuilder::new().mesh_key(Some(k)).server_url(addr).build(server_key)
build(k, addr, sk) == [mesh_key |-> k, server_url |-> addr, secret_key |-> sk]

\* The future handed to self.tasks.spawn: it owns the client and a clone of the
\* packet forwarder handler, and nothing else of the manager (token: the
\* CancellationToken it holds, none being passed to the builder or the block).
NoToken == "none"
SpawnedTask(client, handler) ==
    [client |-> client, packet_forwarder_handler |-> handler, token |-> NoToken,
     state |-> "connecting", abort |-> FALSE, joined |-> FALSE]

Running(t) == t.state \in {"connecting", "established"}

TaskIds(m) == 1..Len(tasks[m])
InSet(m) == {i \in TaskIds(m) : ~tasks[m][i].joined}
Live(m) == {i \in TaskIds(m) : Running(tasks[m][i])}

\* MeshResolve as it would be if a source without endpoints were an error.
MeshResolveEmptyFails(m) ==
    /\ pc[m] = "idle"
    /\ meshCalls[m] < MaxMeshCalls
    /\ Len(tasks[m]) + Len(resolve(mesh_addrs[m])) <= MaxTasks
    /\ addrs' = [addrs EXCEPT ![m] = resolve(mesh_addrs[m])]
    /\ iter' = [iter EXCEPT ![m] = 0]
    /\ meshCalls' = [meshCalls EXCEPT ![m] = @ + 1]
    /\ pc' = [pc EXCEPT ![m] = IF resolve(mesh_addrs[m]) = <<>> THEN "panicked" ELSE "mesh_loop"]
    /\ UNCHANGED <<config, packet_fwd, cancel, tasks, e2e>>

\* MeshResolve as it would be if mesh() could be entered while shutdown() is
\* joining (a shared-reference shutdown).
MeshResolveDuringShutdown(m) ==
    /\ pc[m] \in {"idle", "shutdown_join"}
    /\ meshCalls[m] < MaxMeshCalls
    /\ Len(tasks[m]) + Len(resolve(mesh_addrs[m])) <= MaxTasks
    /\ addrs' = [addrs EXCEPT ![m] = resolve(mesh_addrs[m])]
    /\ iter' = [iter EXCEPT ![m] = 0]
    /\ meshCalls' = [meshCalls EXCEPT ![m] = @ + 1]
    /\ pc' = [pc EXCEPT ![m] = "mesh_loop"]
    /\ UNCHANGED <<config, packet_fwd, cancel, tasks, e2e>>

\* mesh(), up to the for loop: the address list is resolved.
MeshResolve(m) ==
    /\ pc[m] = "idle"
    /\ meshCalls[m] < MaxMeshCalls
    /\ Len(tasks[m]) + Len(resolve(mesh_addrs[m])) <= MaxTasks
    /\ addrs' = [addrs EXCEPT ![m] = resolve(mesh_addrs[m])]
    /\ iter' = [iter EXCEPT ![m] = 0]
    /\ meshCalls' = [meshCalls EXCEPT ![m] = @ + 1]
    /\ pc' = [pc EXCEPT ![m] = "mesh_loop"]
    /\ UNCHANGED <<config, packet_fwd, cancel, tasks, e2e>>

\* MeshSpawn as it would be if an endpoint that already has a running task
\* were skipped.
MeshSpawnDedup(m) ==
    /\ pc[m] = "mesh_loop"
    /\ iter[m] < Len(addrs[m])
    /\ LET addr == addrs[m][iter[m] + 1]
           client == build(mesh_key[m], addr, server_key[m])
           packet_forwarder_handler == m
       IN tasks' = [tasks EXCEPT ![m] =
                IF \E i \in TaskIds(m) : Running(tasks[m][i]) /\ tasks[m][i].client.server_url = addr
                THEN @
                ELSE Append(@, SpawnedTask(client, packet_forwarder_handler))]
    /\ iter' = [iter EXCEPT ![m] = @ + 1]
    /\ UNCHANGED <<config, packet_fwd, cancel, pc, addrs, meshCalls, e2e>>

\* MeshSpawn as it would be if the client were built without the mesh key.
MeshSpawnNoMeshKey(m) ==
    /\ pc[m] = "mesh_loop"
    /\ iter[m] < Len(addrs[m])
    /\ LET addr == addrs[m][iter[m] + 1]
           client == build("none", addr, server_key[m])
           packet_forwarder_handler == m
       IN tasks' = [tasks EXCEPT ![m] = Append(@, SpawnedTask(client, packet_forwarder_handler))]
    /\ iter' = [iter EXCEPT ![m] = @ + 1]
    /\ UNCHANGED <<config, packet_fwd, cancel, pc, addrs, meshCalls, e2e>>

\* MeshSpawn as it would be if every turn of the loop used the first address.
MeshSpawnFirstAddr(m) ==
    /\ pc[m] = "mesh_loop"
    /\ iter[m] < Len(addrs[m])
    /\ LET addr == addrs[m][1]
           client == build(mesh_key[m], addr, server_key[m])
           packet_forwarder_handler == m
       IN tasks' = [tasks EXCEPT ![m] = Append(@, SpawnedTask(client, packet_forwarder_handler))]
    /\ iter' = [iter EXCEPT ![m] = @ + 1]
    /\ UNCHANGED <<config, packet_fwd, cancel, pc, addrs, meshCalls, e2e>>

\* One turn of `for addr in addrs`: build the client, clone the handler, spawn.
MeshSpawn(m) ==
    /\ pc[m] = "mesh_loop"
    /\ iter[m] < Len(addrs[m])
    /\ LET addr == addrs[m][iter[m] + 1]
           client == build(mesh_key[m], addr, server_key[m])
           packet_forwarder_handler == m
       IN tasks' = [tasks EXCEPT ![m] = Append(@, SpawnedTask(client, packet_forwarder_handler))]
    /\ iter' = [iter EXCEPT ![m] = @ + 1]
    /\ UNCHANGED <<config, packet_fwd, cancel, pc, addrs, meshCalls, e2e>>

\* MeshReturn as it would be if mesh() awaited the connections it started.
MeshReturnAwaitsConnections(m) ==
    /\ pc[m] = "mesh_loop"
    /\ iter[m] = Len(addrs[m])
    /\ \A i \in TaskIds(m) : tasks[m][i].state # "connecting"
    /\ pc' = [pc EXCEPT ![m] = "idle"]
    /\ addrs' = [addrs EXCEPT ![m] = <<>>]
    /\ iter' = [iter EXCEPT ![m] = 0]
    /\ UNCHANGED <<config, packet_fwd, cancel, tasks, meshCalls, e2e>>

\* MeshReturn as it would be if mesh() had taken the address source out of the
\* manager (std::mem::take) instead of borrowing it.
MeshReturnTakesAddrs(m) ==
    /\ pc[m] = "mesh_loop"
    /\ iter[m] = Len(addrs[m])
    /\ pc' = [pc EXCEPT ![m] = "idle"]
    /\ addrs' = [addrs EXCEPT ![m] = <<>>]
    /\ iter' = [iter EXCEPT ![m] = 0]
    /\ mesh_addrs' = [mesh_addrs EXCEPT ![m] = Addrs(<<>>)]
    /\ UNCHANGED <<mesh_key, server_key, packet_fwd, cancel, tasks, meshCalls, e2e>>

\* The for loop is exhausted: mesh() returns ().
MeshReturn(m) ==
    /\ pc[m] = "mesh_loop"
    /\ iter[m] = Len(addrs[m])
    /\ pc' = [pc EXCEPT ![m] = "idle"]
    /\ addrs' = [addrs EXCEPT ![m] = <<>>]
    /\ iter' = [iter EXCEPT ![m] = 0]
    /\ UNCHANGED <<config, packet_fwd, cancel, tasks, meshCalls, e2e>>

\* What ClientBuilder::build can return.
BuildOutcomes == {"Ok", "Err"}

\* MeshPanic as it would be if a failed build were skipped and the loop went on.
MeshBuildErrSkipped(m) ==
    /\ pc[m] = "mesh_loop"
    /\ iter[m] < Len(addrs[m])
    /\ "Err" \in BuildOutcomes
    /\ iter' = [iter EXCEPT ![m] = @ + 1]
    /\ UNCHANGED <<config, packet_fwd, cancel, tasks, pc, addrs, meshCalls, e2e>>

\* .build(..).expect("will only fail if no `server_url` is present") on Err:
\* the panic unwinds out of mesh() in the middle of the for loop.
MeshPanic(m) ==
    /\ pc[m] = "mesh_loop"
    /\ iter[m] < Len(addrs[m])
    /\ "Err" \in BuildOutcomes
    /\ pc' = [pc EXCEPT ![m] = "panicked"]
    /\ UNCHANGED <<config, packet_fwd, cancel, tasks, addrs, iter, meshCalls, e2e>>

\* ------------------------------------------------------------------ the spawned tasks
\* The mesh key the relay listening at `url` was started with.
PeerMeshKey(url) ==
    IF url = a_url THEN mesh_key["A"]
    ELSE IF url = b_url THEN mesh_key["B"]
    ELSE TestMeshKey

\* A relay accepts a mesh client on its ingress path, with its own mesh key.
Accepts(client) ==
    /\ client.server_url.path = IngressPath
    /\ client.mesh_key = PeerMeshKey(client.server_url)

SetState(m, i, s) == [tasks EXCEPT ![m][i].state = s]

\* run_mesh_client: the connection to the peer relay is established.
TaskConnect(m, i) ==
    /\ i \in TaskIds(m)
    /\ tasks[m][i].state = "connecting"
    /\ Accepts(tasks[m][i].client)
    /\ tasks' = SetState(m, i, "established")
    /\ UNCHANGED <<config, packet_fwd, cancel, pc, addrs, iter, meshCalls, e2e>>

\* run_mesh_client: a packet the peer relay sent on this connection is handed
\* to the packet forwarder handler the task holds.
TaskSubmit(m, i) ==
    /\ i \in TaskIds(m)
    /\ tasks[m][i].state = "established"
    /\ \E r \in relayed[m] :
        /\ r.from = tasks[m][i].client.server_url
        /\ LET sink == tasks[m][i].packet_forwarder_handler
           IN /\ Len(packet_fwd[sink]) < MaxSubmit
              /\ packet_fwd' = [packet_fwd EXCEPT ![sink] = Append(@, r.packet)]
        /\ relayed' = [relayed EXCEPT ![m] = @ \ {r}]
    /\ UNCHANGED <<config, cancel, tasks, pc, addrs, iter, meshCalls, delivered, inbox, dropped>>

\* TaskFail as it would be if the first error took the sibling tasks down.
TaskFailAbortsSiblings(m, i) ==
    /\ i \in TaskIds(m)
    /\ Running(tasks[m][i])
    /\ tasks' = [tasks EXCEPT ![m] =
            [j \in TaskIds(m) |->
                IF j = i THEN [tasks[m][j] EXCEPT !.state = "failed"]
                ELSE IF Running(tasks[m][j]) THEN [tasks[m][j] EXCEPT !.abort = TRUE]
                ELSE tasks[m][j]]]
    /\ UNCHANGED <<config, packet_fwd, cancel, pc, addrs, iter, meshCalls, e2e>>

\* TaskFail as it would be if the failed connection were replaced by a fresh
\* task for the same endpoint.
TaskFailRespawns(m, i) ==
    /\ i \in TaskIds(m)
    /\ Running(tasks[m][i])
    /\ Len(tasks[m]) < MaxTasks
    /\ tasks' = [tasks EXCEPT ![m] =
            Append([@ EXCEPT ![i].state = "failed"],
                   SpawnedTask(tasks[m][i].client, tasks[m][i].packet_forwarder_handler))]
    /\ UNCHANGED <<config, packet_fwd, cancel, pc, addrs, iter, meshCalls, e2e>>

\* TaskFail as it would be if the failing task signalled the manager's token.
TaskFailCancels(m, i) ==
    /\ i \in TaskIds(m)
    /\ Running(tasks[m][i])
    /\ tasks' = SetState(m, i, "failed")
    /\ cancel' = [cancel EXCEPT ![m] = TRUE]
    /\ UNCHANGED <<config, packet_fwd, pc, addrs, iter, meshCalls, e2e>>

\* if let Err(e) = client.run_mesh_client(..).await { tracing::warn!(..) }:
\* the task ends, and only the task.
TaskFail(m, i) ==
    /\ i \in TaskIds(m)
    /\ Running(tasks[m][i])
    /\ tasks' = SetState(m, i, "failed")
    /\ UNCHANGED <<config, packet_fwd, cancel, pc, addrs, iter, meshCalls, e2e>>

\* TaskFinish as it would be if a task that ended were taken out of the set.
TaskFinishLeavesSet(m, i) ==
    /\ i \in TaskIds(m)
    /\ Running(tasks[m][i])
    /\ tasks' = [tasks EXCEPT ![m][i].state = "finished", ![m][i].joined = TRUE]
    /\ UNCHANGED <<config, packet_fwd, cancel, pc, addrs, iter, meshCalls, e2e>>

\* run_mesh_client returned Ok(()): the task ends.
TaskFinish(m, i) ==
    /\ i \in TaskIds(m)
    /\ Running(tasks[m][i])
    /\ tasks' = SetState(m, i, "finished")
    /\ UNCHANGED <<config, packet_fwd, cancel, pc, addrs, iter, meshCalls, e2e>>

\* The runtime drops a task whose abort was requested, at its next yield.
TaskAborted(m, i) ==
    /\ i \in TaskIds(m)
    /\ Running(tasks[m][i])
    /\ tasks[m][i].abort
    /\ tasks' = SetState(m, i, "aborted")
    /\ UNCHANGED <<config, packet_fwd, cancel, pc, addrs, iter, meshCalls, e2e>>

\* ------------------------------------------------------------------ shutdown()
\* ShutdownCancel as it would be if shutdown() went to the task set without
\* signalling the token.
ShutdownCancelNoSignal(m) ==
    /\ pc[m] = "idle"
    /\ pc' = [pc EXCEPT ![m] = "shutdown_abort"]
    /\ UNCHANGED <<config, packet_fwd, cancel, tasks, addrs, iter, meshCalls, e2e>>

\* self.cancel.cancel()
ShutdownCancel(m) ==
    /\ pc[m] = "idle"
    /\ cancel' = [cancel EXCEPT ![m] = TRUE]
    /\ pc' = [pc EXCEPT ![m] = "shutdown_abort"]
    /\ UNCHANGED <<config, packet_fwd, tasks, addrs, iter, meshCalls, e2e>>

\* ShutdownAbortAll as it would be if the tasks were only joined, not aborted.
ShutdownJoinOnly(m) ==
    /\ pc[m] = "shutdown_abort"
    /\ pc' = [pc EXCEPT ![m] = "shutdown_join"]
    /\ UNCHANGED <<config, packet_fwd, cancel, tasks, addrs, iter, meshCalls, e2e>>

\* self.tasks.shutdown(), first half: JoinSet::abort_all.
ShutdownAbortAll(m) ==
    /\ pc[m] = "shutdown_abort"
    /\ tasks' = [tasks EXCEPT ![m] =
            [i \in TaskIds(m) |-> IF Running(tasks[m][i])
                                  THEN [tasks[m][i] EXCEPT !.abort = TRUE]
                                  ELSE tasks[m][i]]]
    /\ pc' = [pc EXCEPT ![m] = "shutdown_join"]
    /\ UNCHANGED <<config, packet_fwd, cancel, addrs, iter, meshCalls, e2e>>

\* self.tasks.shutdown(), second half: join_next() yields a task that ended.
JoinNext(m, i) ==
    /\ pc[m] = "shutdown_join"
    /\ i \in InSet(m)
    /\ ~Running(tasks[m][i])
    /\ tasks' = [tasks EXCEPT ![m][i].joined = TRUE]
    /\ UNCHANGED <<config, packet_fwd, cancel, pc, addrs, iter, meshCalls, e2e>>

\* ShutdownReturn as it would be if shutdown() did not await the join.
ShutdownReturnNoJoin(m) ==
    /\ pc[m] = "shutdown_join"
    /\ pc' = [pc EXCEPT ![m] = "done"]
    /\ UNCHANGED <<config, packet_fwd, cancel, tasks, addrs, iter, meshCalls, e2e>>

\* ShutdownReturn as it would be if shutdown() took `&mut self`: the manager is
\* handed back to the caller.
ShutdownReturnReusable(m) ==
    /\ pc[m] = "shutdown_join"
    /\ InSet(m) = {}
    /\ pc' = [pc EXCEPT ![m] = "idle"]
    /\ UNCHANGED <<config, packet_fwd, cancel, tasks, addrs, iter, meshCalls, e2e>>

\* join_next() yields None: the set is empty, shutdown() returns.
ShutdownReturn(m) ==
    /\ pc[m] = "shutdown_join"
    /\ InSet(m) = {}
    /\ pc' = [pc EXCEPT ![m] = "done"]
    /\ UNCHANGED <<config, packet_fwd, cancel, tasks, addrs, iter, meshCalls, e2e>>

\* ------------------------------------------------------------------ the manager's lifecycle
Lifecycle(m) ==
    CASE pc[m] = "idle" /\ meshCalls[m] = 0 -> "Created"
      [] pc[m] \in {"idle", "mesh_loop", "panicked"} -> "Meshing"
      [] pc[m] \in {"shutdown_abort", "shutdown_join"} -> "ShuttingDown"
      [] OTHER -> "Terminated"

\* ------------------------------------------------------------------ the peer relays
\* A packet a peer relay holds for a client of this server.
PeerPacket ==
    [src |-> public_key(SecretKeyOf("remote")), dst |-> public_key(SecretKeyOf("local")),
     data |-> "payload"]

\* A peer relay sends a packet down an established mesh connection.
PeerRelay(m, i) ==
    /\ i \in TaskIds(m)
    /\ tasks[m][i].state = "established"
    /\ LET r == [from |-> tasks[m][i].client.server_url, packet |-> PeerPacket]
       IN /\ r \notin relayed[m]
          /\ Cardinality(relayed[m]) < MaxInFlight
          /\ relayed' = [relayed EXCEPT ![m] = @ \cup {r}]
    /\ UNCHANGED <<config, packet_fwd, cancel, tasks, pc, addrs, iter, meshCalls,
                   delivered, inbox, dropped>>

\* ------------------------------------------------------------------ one manager
TypeOK ==
    /\ \A m \in Managers :
        /\ pc[m] \in {"idle", "mesh_loop", "panicked", "shutdown_abort", "shutdown_join", "done"}
        /\ cancel[m] \in BOOLEAN
        /\ meshCalls[m] \in 0..MaxMeshCalls
        /\ iter[m] \in 0..Len(addrs[m])
        /\ Len(tasks[m]) <= MaxTasks
        /\ Len(packet_fwd[m]) <= MaxSubmit

InitCommon ==
    /\ mesh_key = [m \in Managers |-> TestMeshKey]
    /\ server_key = [m \in Managers |-> SecretKeyOf(m)]
    /\ packet_fwd = [m \in Managers |-> <<>>]
    /\ cancel = [m \in Managers |-> FALSE]
    /\ tasks = [m \in Managers |-> <<>>]
    /\ pc = [m \in Managers |-> "idle"]
    /\ addrs = [m \in Managers |-> <<>>]
    /\ iter = [m \in Managers |-> 0]
    /\ meshCalls = [m \in Managers |-> 0]
    /\ relayed = [m \in Managers |-> {}]
    /\ delivered = [m \in Managers |-> 0]
    /\ inbox = [c \in Clients |-> <<>>]
    /\ dropped = [c \in Clients |-> FALSE]

\* MeshClients::new on one server; the other server runs no manager.
Init ==
    /\ InitCommon
    /\ mesh_addrs \in {[m \in Managers |-> IF m = "A" THEN s ELSE Addrs(<<>>)] : s \in Sources}

ManagerStep(m) ==
    \/ MeshResolve(m)
    \/ MeshSpawn(m)
    \/ MeshReturn(m)
    \/ ShutdownCancel(m)
    \/ ShutdownAbortAll(m)
    \/ \E i \in 1..MaxTasks : JoinNext(m, i)
    \/ ShutdownReturn(m)

TaskStep(m) ==
    \E i \in 1..MaxTasks :
        \/ TaskConnect(m, i)
        \/ TaskSubmit(m, i)
        \/ TaskFail(m, i)
        \/ TaskFinish(m, i)
        \/ TaskAborted(m, i)
        \/ PeerRelay(m, i)

Next == ManagerStep("A") \/ TaskStep("A")

Spec == Init /\ [][Next]_vars

\* The manager's own steps are taken, and while aborts are pending the runtime
\* drops one of the aborted tasks (at its next yield); nothing is assumed of
\* what a task does by itself.
Fairness(m) ==
    /\ WF_vars(MeshSpawn(m))
    /\ WF_vars(MeshReturn(m))
    /\ WF_vars(ShutdownAbortAll(m))
    /\ WF_vars(\E i \in 1..MaxTasks : JoinNext(m, i))
    /\ WF_vars(ShutdownReturn(m))
    /\ WF_vars(\E i \in 1..MaxTasks : TaskAborted(m, i))

FairSpec == Spec /\ Fairness("A")

\* ------------------------------------------------------------------ a builder that can fail
\* The manager with a ClientBuilder whose build may return Err for any endpoint.
NextBuild == Next \/ MeshPanic("A")

SpecBuild == Init /\ [][NextBuild]_vars

\* ------------------------------------------------------------------ the resolver alone
\* Every address source within the bounds, and mesh() on it.
InitResolve ==
    /\ InitCommon
    /\ mesh_addrs \in {[m \in Managers |-> IF m = "A" THEN s ELSE Addrs(<<>>)] : s \in AllSources}

NextResolve == MeshResolve("A") \/ MeshSpawn("A") \/ MeshReturn("A")

SpecResolve == InitResolve /\ [][NextResolve]_vars

\* ------------------------------------------------------------------ tests::test_mesh_network
\* alice is attached to derp server a, bob to derp server b.
Home(c) == IF c = "alice" THEN "A" ELSE "B"
Peer(c) == IF c = "alice" THEN "bob" ELSE "alice"
ServerUrl(m) == IF m = "A" THEN a_url ELSE b_url
Message(c) == IF c = "alice" THEN "howdy, bob!" ELSE "why hello, alice!"

\* client.send(peer_key.public_key(), msg.into())
Packet(c) ==
    [src |-> public_key(SecretKeyOf(c)), dst |-> public_key(SecretKeyOf(Peer(c))),
     data |-> Message(c)]

\* ReceivedMessage::ReceivedPacket { source, data }
ReceivedPacket(source, data) == [source |-> source, data |-> data]

\* Server `to` holds an established mesh client connection to server `from`.
MeshRoute(from, to) ==
    \E i \in TaskIds(to) :
        /\ tasks[to][i].state = "established"
        /\ tasks[to][i].client.server_url = ServerUrl(from)

InTransit(c) ==
    LET to == Home(Peer(c))
    IN \/ \E r \in relayed[to] : r.packet = Packet(c)
       \/ \E k \in (delivered[to] + 1)..Len(packet_fwd[to]) : packet_fwd[to][k] = Packet(c)

\* alice.send(..) / bob.send(..), first or repeated: the client's server has no
\* local client for the destination and forwards over the mesh, or drops.
ClientSend(c) ==
    /\ \A m \in Managers : meshCalls[m] >= 1 /\ pc[m] = "idle"
    /\ c = "bob" => inbox["bob"] # <<>>
    /\ inbox[Peer(c)] = <<>>
    /\ ~InTransit(c)
    /\ IF MeshRoute(Home(c), Home(Peer(c)))
       THEN /\ relayed' = [relayed EXCEPT ![Home(Peer(c))] =
                              @ \cup {[from |-> ServerUrl(Home(c)), packet |-> Packet(c)]}]
            /\ UNCHANGED dropped
       ELSE /\ dropped' = [dropped EXCEPT ![c] = TRUE]
            /\ UNCHANGED relayed
    /\ UNCHANGED <<config, packet_fwd, cancel, tasks, pc, addrs, iter, meshCalls,
                   delivered, inbox>>

\* The server routes the next packet of its forwarding sink to the local client.
ServerDeliver(m) ==
    /\ delivered[m] < Len(packet_fwd[m])
    /\ LET p == packet_fwd[m][delivered[m] + 1]
       IN inbox' = [c \in Clients |->
                        IF Home(c) = m /\ public_key(SecretKeyOf(c)) = p.dst
                        THEN Append(inbox[c], ReceivedPacket(p.src, p.data))
                        ELSE inbox[c]]
    /\ delivered' = [delivered EXCEPT ![m] = @ + 1]
    /\ UNCHANGED <<config, packet_fwd, cancel, tasks, pc, addrs, iter, meshCalls,
                   relayed, dropped>>

\* derp_server_x.shutdown().await, after both messages were received.
TestShutdown(m) ==
    /\ \A c \in Clients : inbox[c] # <<>>
    /\ ShutdownCancel(m)

\* re_mesh(MeshAddrs::Addrs(vec![url of the other server])) on both servers.
InitE2E ==
    /\ InitCommon
    /\ mesh_addrs = [m \in Managers |-> IF m = "A" THEN Addrs(<<b_url>>) ELSE Addrs(<<a_url>>)]

\* Both servers are up and share the mesh key, so no connection ends by itself.
NextE2E ==
    \/ \E m \in Managers :
        \/ MeshResolve(m)
        \/ MeshSpawn(m)
        \/ MeshReturn(m)
        \/ TestShutdown(m)
        \/ ShutdownAbortAll(m)
        \/ ShutdownReturn(m)
        \/ ServerDeliver(m)
        \/ \E i \in 1..MaxTasks :
            \/ TaskConnect(m, i)
            \/ TaskSubmit(m, i)
            \/ TaskAborted(m, i)
            \/ JoinNext(m, i)
    \/ \E c \in Clients : ClientSend(c)

SpecE2E == InitE2E /\ [][NextE2E]_vars

\* The test runs on: each server meshes, connections establish, packets move,
\* the clients keep sending.
FairnessE2E ==
    /\ \A m \in Managers :
        /\ Fairness(m)
        /\ WF_vars(meshCalls[m] = 0 /\ MeshResolve(m))
        /\ WF_vars(ServerDeliver(m))
        /\ \A i \in 1..MaxTasks : WF_vars(TaskConnect(m, i)) /\ WF_vars(TaskSubmit(m, i))
    /\ \A c \in Clients : WF_vars(ClientSend(c))

FairSpecE2E == SpecE2E /\ FairnessE2E

\* ------------------------------------------------------------------ properties
\* C1. Shutdown completeness: in every state after shutdown() has returned, no
\* task spawned by the manager is running, and no step adds a packet to the
\* manager's forwarding sink any more, whatever the tasks did before (tasks
\* that never saw a cancellation included).
C1_ShutdownCompleteness ==
    /\ [](\A m \in Managers : pc[m] = "done" => Live(m) = {})
    /\ [][\A m \in Managers : pc[m] = "done" => packet_fwd'[m] = packet_fwd[m]]_vars

\* shutdown() has returned; a task that ran on until it was aborted is gone,
\* the sink had received a packet, and the peer relay still has one to send.
C1_Witness ==
    /\ pc["A"] = "done"
    /\ \E i \in TaskIds("A") : tasks["A"][i].state = "aborted"
    /\ packet_fwd["A"] # <<>>
    /\ relayed["A"] # {}

\* C2. shutdown() terminates: once it has been invoked (from Created or from
\* Meshing) it returns, the manager being Terminated, even though no task is
\* assumed ever to end by itself; invoked on a manager that never meshed, it
\* returns with no task to have waited on.
C2_ShutdownTerminates ==
    /\ \A m \in Managers : (pc[m] = "shutdown_abort") ~> (Lifecycle(m) = "Terminated")
    /\ [](\A m \in Managers :
            (Lifecycle(m) \in {"ShuttingDown", "Terminated"} /\ meshCalls[m] = 0)
                => tasks[m] = <<>>)

\* shutdown() has returned although a task had to be aborted while still
\* connecting, and another while established.
C2_Witness ==
    /\ Lifecycle("A") = "Terminated"
    /\ \E i, j \in TaskIds("A") :
        /\ tasks["A"][i].state = "aborted"
        /\ tasks["A"][j].state = "aborted"
        /\ tasks["A"][i].client.server_url # tasks["A"][j].client.server_url

\* A step in which task i of manager m ends with an error.
FailStep(m, i) ==
    /\ i \in TaskIds(m)
    /\ Running(tasks[m][i])
    /\ tasks'[m][i].state = "failed"

Failed(m) == {i \in TaskIds(m) : tasks[m][i].state = "failed"}

\* C3. Isolation: a step in which one task ends with an error changes no other
\* task of the manager (their number included), nor the manager's position,
\* lifecycle state or cancellation signal, nor anything of the failed task but
\* its state; and as long as errors are the only way tasks have ended, the
\* live tasks are exactly the N spawned minus the K failed.
C3_Isolation ==
    /\ [][\A m \in Managers : \A i \in 1..MaxTasks :
            FailStep(m, i) =>
                /\ Len(tasks'[m]) = Len(tasks[m])
                /\ \A j \in TaskIds(m) \ {i} : tasks'[m][j] = tasks[m][j]
                /\ tasks'[m][i] = [tasks[m][i] EXCEPT !.state = "failed"]
                /\ pc' = pc
                /\ cancel' = cancel
                /\ Lifecycle(m)' = Lifecycle(m)]_vars
    /\ [](\A m \in Managers :
            (\A i \in TaskIds(m) : tasks[m][i].state \in {"connecting", "established", "failed"})
                => Cardinality(Live(m)) = Len(tasks[m]) - Cardinality(Failed(m)))

\* mesh() is still spawning; the first task has already failed, another one is
\* established, and nothing is cancelled.
C3_Witness ==
    /\ pc["A"] = "mesh_loop"
    /\ iter["A"] < Len(addrs["A"])
    /\ ~cancel["A"]
    /\ \E i, j \in TaskIds("A") :
        /\ tasks["A"][i].state = "failed"
        /\ tasks["A"][j].state = "established"

\* C4. mesh() does not wait on connections: once started it returns, with no
\* assumption on what the spawned tasks do (they may stay connecting for ever,
\* fail or run on), and it returns having spawned one task per resolved
\* address.
C4_MeshDoesNotWait ==
    /\ \A m \in Managers : (pc[m] = "mesh_loop") ~> (pc[m] = "idle")
    /\ [][\A m \in Managers :
            (pc[m] = "mesh_loop" /\ pc'[m] = "idle")
                => Len(tasks'[m]) = meshCalls[m] * Len(resolve(mesh_addrs[m]))]_vars

\* mesh() has returned and not one connection is established: every task it
\* spawned is still connecting or has already failed.
C4_Witness ==
    /\ pc["A"] = "idle"
    /\ meshCalls["A"] = 1
    /\ Len(tasks["A"]) = 2
    /\ tasks["A"][1].state = "connecting"
    /\ tasks["A"][2].state = "failed"

\* Occurrences of url u in the sequence us.
Occurrences(us, u) == Cardinality({k \in 1..Len(us) : us[k] = u})

TaskUrls(m) == [i \in TaskIds(m) |-> tasks[m][i].client.server_url]

\* C5. Re-mesh is not deduplicated: whenever mesh() is not in progress, the
\* manager has spawned, for every url, as many tasks as the url occurs in the
\* resolved list times the number of mesh() calls (so N+M tasks after two
\* calls), whatever tasks were already running for that url.
C5_NoDeduplication ==
    \A m \in Managers :
        pc[m] # "mesh_loop" =>
            LET us == resolve(mesh_addrs[m])
            IN /\ Len(tasks[m]) = meshCalls[m] * Len(us)
               /\ \A u \in {us[k] : k \in 1..Len(us)} \cup {TaskUrls(m)[i] : i \in TaskIds(m)} :
                    Occurrences(TaskUrls(m), u) = meshCalls[m] * Occurrences(us, u)

\* Two mesh() calls on a list naming one url twice: four tasks for it, the two
\* of the first call still running when the second call has returned.
C5_Witness ==
    /\ pc["A"] = "idle"
    /\ meshCalls["A"] = 2
    /\ mesh_addrs["A"] = Addrs(<<U2, U2>>)
    /\ Len(tasks["A"]) = 4
    /\ \A i \in TaskIds("A") : tasks["A"][i].state = "established"

\* Nodes of all the regions of rs.
RECURSIVE NodeCount(_)
NodeCount(rs) == IF rs = <<>> THEN 0 ELSE Len(Head(rs).nodes) + NodeCount(Tail(rs))

\* C6. Address derivation: for a derp map, the list mesh() resolves has one
\* endpoint per node, region after region and node after node, and the
\* endpoint of a node is the node's url with scheme, host, port (and query)
\* unchanged and the path "/derp", whatever path the node's url had.
C6_AddressDerivation ==
    \A m \in Managers :
        (pc[m] = "mesh_loop" /\ mesh_addrs[m].tag = "DerpMap") =>
            LET rs == mesh_addrs[m].derp_map.regions
            IN /\ Len(addrs[m]) = NodeCount(rs)
               /\ \A r \in 1..Len(rs) : \A n \in 1..Len(rs[r].nodes) :
                    LET e == addrs[m][NodeCount(SubSeq(rs, 1, r - 1)) + n]
                        u == rs[r].nodes[n].url
                    IN /\ e.scheme = u.scheme
                       /\ e.host = u.host
                       /\ e.port = u.port
                       /\ e.query = u.query
                       /\ e.path = "/derp"

\* mesh() has resolved a map of two regions of two nodes each, whose urls have
\* the path "/old/path" (with a query), "/" and "/derp".
C6_Witness ==
    /\ pc["A"] = "mesh_loop"
    /\ iter["A"] = 0
    /\ mesh_addrs["A"] = DerpMap(<<DerpRegion(<<DerpNode(U3), DerpNode(U1)>>),
                                   DerpRegion(<<DerpNode(U2), DerpNode(U3)>>)>>)

\* C7. Explicit passthrough: for an explicit list, the list mesh() resolves is
\* that very list: same length, same order, duplicates kept, no url rewritten.
C7_ExplicitPassthrough ==
    \A m \in Managers :
        (pc[m] = "mesh_loop" /\ mesh_addrs[m].tag = "Addrs") =>
            /\ Len(addrs[m]) = Len(mesh_addrs[m].urls)
            /\ \A k \in 1..Len(addrs[m]) : addrs[m][k] = mesh_addrs[m].urls[k]

\* mesh() has resolved an explicit list that names twice a url whose path is
\* not the ingress path.
C7_Witness ==
    /\ pc["A"] = "mesh_loop"
    /\ iter["A"] = 0
    /\ mesh_addrs["A"] = Addrs(<<U3, U3>>)

\* What client c receives when its peer's packet reaches it intact.
Expected(c) == ReceivedPacket(public_key(SecretKeyOf(Peer(c))), Message(Peer(c)))

\* C8. End-to-end forwarding: with both servers meshed to each other under one
\* mesh key, the packet alice sends (and sends again while no mesh route is
\* established) is eventually received by bob, and bob's by alice; whatever a
\* client receives carries the sender's public key as source and the payload
\* that was sent.
C8_EndToEndForwarding ==
    /\ <>(inbox["bob"] # <<>>)
    /\ <>(inbox["alice"] # <<>>)
    /\ [](\A c \in Clients : \A k \in 1..Len(inbox[c]) : inbox[c][k] = Expected(c))

\* Both clients have received the other's packet, after a first packet of
\* each was dropped for want of an established mesh route.
C8_Witness ==
    /\ \A c \in Clients : inbox[c] = <<Expected(c)>> /\ dropped[c]

LifecycleOrder ==
    { <<"Created", "Meshing">>, <<"Created", "ShuttingDown">>,
      <<"Meshing", "ShuttingDown">>, <<"ShuttingDown", "Terminated">> }

\* C9. Lifecycle order: the manager's state changes only along Created ->
\* Meshing -> ShuttingDown -> Terminated (or Created -> ShuttingDown), and once
\* shutdown() has been invoked no mesh() is performed (no call starts, no task
\* is spawned, the caller never holds the manager again) and shutdown() is not
\* entered a second time.
C9_LifecycleOrder ==
    [][\A m \in Managers :
        /\ Lifecycle(m)' # Lifecycle(m) => <<Lifecycle(m), Lifecycle(m)'>> \in LifecycleOrder
        /\ Lifecycle(m) \in {"ShuttingDown", "Terminated"} =>
            /\ meshCalls'[m] = meshCalls[m]
            /\ Len(tasks'[m]) = Len(tasks[m])
            /\ pc'[m] \notin {"idle", "mesh_loop"}
            /\ pc'[m] = "shutdown_abort" => pc[m] = "shutdown_abort"]_vars

\* The manager is Terminated after two mesh() calls (Meshing -> Meshing) that
\* spawned tasks.
C9_Witness ==
    /\ Lifecycle("A") = "Terminated"
    /\ meshCalls["A"] = 2
    /\ tasks["A"] # <<>>

\* C10. Cancellation broadcast: every running task of a manager holds the
\* manager's cancellation signal, so that once shutdown() has signalled it the
\* task sees it cancelled.
C10_CancellationBroadcast ==
    \A m \in Managers : \A i \in TaskIds(m) :
        (cancel[m] /\ Running(tasks[m][i])) =>
            /\ tasks[m][i].token = m
            /\ cancel[tasks[m][i].token]

\* C11. No automatic healing: a task that has ended (Ok, error or abort) never
\* runs again and keeps the state it ended in, and the urls tasks were spawned
\* for change only by a turn of the for loop of a mesh() call, which adds the
\* one task of the address it has taken.
C11_NoHealing ==
    [][\A m \in Managers :
        /\ \A i \in TaskIds(m) :
            ~Running(tasks[m][i]) => tasks'[m][i].state = tasks[m][i].state
        /\ TaskUrls(m)' # TaskUrls(m) =>
            /\ pc[m] = "mesh_loop"
            /\ iter[m] < Len(addrs[m])
            /\ iter'[m] = iter[m] + 1
            /\ TaskUrls(m)' = Append(TaskUrls(m), addrs[m][iter[m] + 1])]_vars

\* mesh() returned long ago, its two tasks have ended, one with an error and
\* one with Ok, and the manager, not shut down, has no other task.
C11_Witness ==
    /\ pc["A"] = "idle"
    /\ meshCalls["A"] = 1
    /\ Len(tasks["A"]) = 2
    /\ tasks["A"][1].state = "failed"
    /\ tasks["A"][2].state = "finished"

\* C12. Construction failure is not isolated: when build fails for the
\* endpoint at position i, mesh() stops there: the tasks of this call are
\* those of the endpoints before i, in order, after the tasks of the earlier
\* calls; all of them are still in the task set; no task is spawned afterwards;
\* and the loop never goes past an endpoint without having spawned its task.
C12_ConstructionFailureAborts ==
    /\ [](\A m \in Managers :
            pc[m] \in {"mesh_loop", "panicked"} =>
                LET before == (meshCalls[m] - 1) * Len(addrs[m])
                IN /\ Len(tasks[m]) = before + iter[m]
                   /\ \A k \in 1..iter[m] : TaskUrls(m)[before + k] = addrs[m][k]
                   /\ InSet(m) = TaskIds(m)
                   /\ pc[m] = "panicked" => iter[m] < Len(addrs[m]))
    /\ [][\A m \in Managers :
            pc[m] = "panicked" =>
                /\ pc'[m] = "panicked"
                /\ iter'[m] = iter[m]
                /\ TaskUrls(m)' = TaskUrls(m)
                /\ InSet(m)' = InSet(m)]_vars

\* The second mesh() call on a list of two urls panicked at its second
\* endpoint: the two tasks of the first call and the one of the first
\* endpoint exist, the last one has gone on to establish its connection.
C12_Witness ==
    /\ pc["A"] = "panicked"
    /\ meshCalls["A"] = 2
    /\ iter["A"] = 1
    /\ Len(tasks["A"]) = 3
    /\ tasks["A"][3].state = "established"


\* C13. One task per resolved endpoint: with e_1..e_n the endpoints the
\* manager's source resolves to, the k-th task of every mesh() call is bound to
\* e_k, and its client carries the manager's mesh key and local identity and
\* its handler is the manager's forwarding sink; whenever the manager is
\* between calls it has spawned exactly n tasks per call made.
C13_OneTaskPerEndpoint ==
    \A m \in Managers :
        LET es == resolve(mesh_addrs[m])
            n == Len(es)
        IN /\ \A i \in TaskIds(m) :
                /\ n > 0
                /\ tasks[m][i].client.server_url = es[((i - 1) % n) + 1]
                /\ tasks[m][i].client.mesh_key = mesh_key[m]
                /\ tasks[m][i].client.secret_key = server_key[m]
                /\ tasks[m][i].packet_forwarder_handler = m
           /\ pc[m] = "idle" => Len(tasks[m]) = meshCalls[m] * n

\* One mesh() call on a map that resolves to three endpoints has returned:
\* three tasks, one per endpoint, all with the same keys and sink.
C13_Witness ==
    /\ pc["A"] = "idle"
    /\ meshCalls["A"] = 1
    /\ Len(resolve(mesh_addrs["A"])) = 3
    /\ Len(tasks["A"]) = 3
    /\ \A i \in 1..3 : tasks["A"][i].client.server_url = resolve(mesh_addrs["A"])[i]
    /\ \A i \in 1..3 : tasks["A"][i].client.mesh_key = TestMeshKey
    /\ \E i, j \in 1..3 : tasks["A"][i].client.server_url # tasks["A"][j].client.server_url


\* A source that names no endpoint: an empty explicit list, a map with no
\* region, or a map all of whose regions have no node.
EmptySource(ma) ==
    IF ma.tag = "Addrs" THEN ma.urls = <<>>
    ELSE \A r \in 1..Len(ma.derp_map.regions) : ma.derp_map.regions[r].nodes = <<>>

\* C14. Empty source is a no-op: on a source that names no endpoint mesh()
\* resolves the empty list, spawns nothing and returns normally, so the
\* manager never has a task, however often mesh() is called, and nothing else
\* of the manager changes.
C14_EmptySourceNoOp ==
    /\ [](\A m \in Managers :
            EmptySource(mesh_addrs[m]) =>
                /\ tasks[m] = <<>>
                /\ pc[m] \in {"idle", "mesh_loop"}
                /\ addrs[m] = <<>>
                /\ iter[m] = 0)
    /\ [][\A m \in Managers :
            (EmptySource(mesh_addrs[m]) /\ pc[m] = "mesh_loop") =>
                /\ pc'[m] \in {"mesh_loop", "idle"}
                /\ tasks'[m] = <<>>
                /\ mesh_key'[m] = mesh_key[m]
                /\ server_key'[m] = server_key[m]
                /\ mesh_addrs'[m] = mesh_addrs[m]
                /\ packet_fwd'[m] = packet_fwd[m]
                /\ cancel'[m] = cancel[m]]_vars

\* mesh() has been called twice on a map of two regions without nodes and has
\* returned both times, leaving no task.
C14_Witness ==
    /\ mesh_addrs["A"] = DerpMap(<<DerpRegion(<<>>), DerpRegion(<<>>)>>)
    /\ meshCalls["A"] = 2
    /\ pc["A"] = "idle"
    /\ tasks["A"] = <<>>


\* C15. Task-set membership: the set grows only by the spawns of mesh(), one
\* task per turn of its loop; it loses tasks only while shutdown() joins
\* them; a task that ended by itself, with or without an error, stays in the
\* set, so until shutdown() every task ever spawned is still in it.
C15_TaskSetMembership ==
    /\ [](\A m \in Managers :
            pc[m] \in {"idle", "mesh_loop", "shutdown_abort"} => InSet(m) = TaskIds(m))
    /\ [][\A m \in Managers :
            InSet(m)' # InSet(m) =>
                \/ /\ pc[m] = "mesh_loop"
                   /\ InSet(m)' = InSet(m) \cup {Len(tasks[m]) + 1}
                \/ /\ pc[m] = "shutdown_join"
                   /\ InSet(m)' \subseteq InSet(m)]_vars

\* Between two mesh() calls: of the two tasks one has failed and one has
\* finished, and both are still in the set.
C15_Witness ==
    /\ pc["A"] = "idle"
    /\ Len(tasks["A"]) = 2
    /\ tasks["A"][1].state = "finished"
    /\ tasks["A"][2].state = "failed"
    /\ InSet("A") = {1, 2}

\* C16. Shutdown ordering: the cancellation signal is set before any task is
\* asked to abort, is dropped by the runtime or is joined, and it is set when
\* shutdown() returns.
C16_ShutdownOrdering ==
    /\ [](\A m \in Managers :
            /\ pc[m] \in {"shutdown_abort", "shutdown_join", "done"} => cancel[m]
            /\ \A i \in TaskIds(m) :
                (tasks[m][i].abort \/ tasks[m][i].state = "aborted" \/ tasks[m][i].joined)
                    => cancel[m])
    /\ [][\A m \in Managers : \A i \in TaskIds(m) :
            (tasks'[m][i].abort # tasks[m][i].abort \/ tasks'[m][i].joined # tasks[m][i].joined)
                => cancel[m]]_vars

\* shutdown() is joining: the signal is set, one task has been aborted and
\* joined, another is still running with its abort requested.
C16_Witness ==
    /\ pc["A"] = "shutdown_join"
    /\ cancel["A"]
    /\ \E i, j \in TaskIds("A") :
        /\ tasks["A"][i].state = "aborted" /\ tasks["A"][i].joined
        /\ Running(tasks["A"][j]) /\ tasks["A"][j].abort


\* C17. The cancellation signal is set only by shutdown(): while the manager
\* is Created or Meshing the signal is not cancelled, whatever its tasks have
\* done; the only step that changes it is the first step of shutdown(), which
\* sets it; and once set it stays set.
C17_CancelOnlyByShutdown ==
    /\ [](\A m \in Managers : Lifecycle(m) \in {"Created", "Meshing"} => ~cancel[m])
    /\ [][\A m \in Managers :
            /\ cancel[m] => cancel'[m]
            /\ cancel'[m] # cancel[m] =>
                (pc[m] = "idle" /\ pc'[m] = "shutdown_abort")]_vars

\* After two mesh() calls the manager is Meshing with four tasks, some failed
\* and some finished, and the signal is not cancelled.
C17_Witness ==
    /\ Lifecycle("A") = "Meshing"
    /\ meshCalls["A"] = 2
    /\ Len(tasks["A"]) = 4
    /\ \E i, j \in TaskIds("A") :
        tasks["A"][i].state = "failed" /\ tasks["A"][j].state = "finished"
    /\ ~cancel["A"]


\* A step of mesh() on manager m: the call begins, the loop takes a turn, or
\* the call returns.
MeshStep(m) ==
    /\ pc[m] = "mesh_loop" \/ pc'[m] = "mesh_loop"
    /\ pc'[m] # pc[m] \/ iter'[m] # iter[m]

\* C18. mesh() changes nothing but the task set: every step of mesh() leaves
\* the mesh key, the local identity, the address source, the forwarding sink
\* and the cancellation signal as they were; so every call resolves the same
\* endpoint sequence (the task of position k of a call has the endpoint of the
\* task of position k of the call before), and after k calls the number of
\* spawned tasks is k times the length of that sequence.
C18_MeshFrame ==
    /\ [][\A m \in Managers :
            MeshStep(m) =>
                /\ mesh_key'[m] = mesh_key[m]
                /\ server_key'[m] = server_key[m]
                /\ mesh_addrs'[m] = mesh_addrs[m]
                /\ packet_fwd'[m] = packet_fwd[m]
                /\ cancel'[m] = cancel[m]]_vars
    /\ [](\A m \in Managers :
            LET n == Len(resolve(mesh_addrs[m]))
            IN /\ pc[m] = "mesh_loop" => addrs[m] = resolve(mesh_addrs[m])
               /\ \A i \in TaskIds(m) : i > n => TaskUrls(m)[i] = TaskUrls(m)[i - n]
               /\ pc[m] # "mesh_loop" => Len(tasks[m]) = meshCalls[m] * n)

\* Two mesh() calls on the explicit list of one url have returned: two tasks
\* for the same endpoint, and the source is still that list.
C18_Witness ==
    /\ pc["A"] = "idle"
    /\ meshCalls["A"] = 2
    /\ mesh_addrs["A"] = Addrs(<<U3>>)
    /\ Len(tasks["A"]) = 2
    /\ tasks["A"][1].client.server_url = U3
    /\ tasks["A"][2].client.server_url = U3


\* C19. No spawn after shutdown begins: once the cancellation signal is set
\* no task is added to the manager's task set; while shutdown() runs and after
\* it no mesh() call is in progress; so from the abort onwards every task that
\* still runs has its abort requested, and when shutdown() has returned every
\* task has ended and has been joined.
C19_NoSpawnAfterShutdown ==
    /\ [][\A m \in Managers :
            cancel[m] => /\ Len(tasks'[m]) = Len(tasks[m])
                         /\ meshCalls'[m] = meshCalls[m]
                         /\ pc'[m] # "mesh_loop"]_vars
    /\ [](\A m \in Managers :
            /\ pc[m] \in {"shutdown_abort", "shutdown_join", "done"} =>
                (addrs[m] = <<>> /\ iter[m] = 0)
            /\ pc[m] \in {"shutdown_join", "done"} =>
                \A i \in TaskIds(m) : Running(tasks[m][i]) => tasks[m][i].abort
            /\ pc[m] = "done" =>
                \A i \in TaskIds(m) : ~Running(tasks[m][i]) /\ tasks[m][i].joined)

\* shutdown() is joining after one mesh() call on two endpoints; both tasks
\* still run with their abort requested; a second mesh() call would still be
\* within the explored bounds.
C19_Witness ==
    /\ pc["A"] = "shutdown_join"
    /\ cancel["A"]
    /\ meshCalls["A"] = 1
    /\ meshCalls["A"] < MaxMeshCalls
    /\ Len(tasks["A"]) = 2
    /\ Len(tasks["A"]) + Len(resolve(mesh_addrs["A"])) <= MaxTasks
    /\ \A i \in TaskIds("A") : Running(tasks["A"][i]) /\ tasks["A"][i].abort

====
